---- MODULE Spec2Model ----
(***************************************************************************)
(* Model of process_city_shapes.py: the slippy-tile projection (deg2num,   *)
(* num2deg), the grid rasterizer (get_coords_inside_polygon) and the batch *)
(* pipeline (calculate_inner_coordinates_from_csvpath,                     *)
(* calculate_inner_coordinates) running against the solardb store.         *)
(***************************************************************************)
EXTENDS Integers, Sequences, FiniteSets, TLC

VARIABLES
    \* ---- pipeline (calculate_inner_coordinates*) and the solardb store
    entry,                      \* "csvpath" (public api) or "direct" call
    csv,                        \* region names listed by the csv, in file order
    inner_coords_calculated,    \* store: names whose interior grid is computed
    stored_polygons,            \* store: name -> persisted projected polygon
    stored_coords,              \* store: name -> persisted interior coordinates
    pc,                         \* position inside the running call
    run,                        \* number of runs started so far
    prev_completed,             \* the previous run returned normally
    start_calculated,           \* inner_coords_calculated when the run started
    start_polygons,             \* stored_polygons when the run started
    start_coords,               \* stored_coords when the run started
    polygon_names,              \* argument of calculate_inner_coordinates
    polygons,                   \* argument of calculate_inner_coordinates
    slippy_tile_coordinate_polygons,
    zipped_names_and_polygons,
    to_calculate_names_and_polygons,
    i,                          \* index of the filter loop (line 210)
    k,                          \* index of the rasterize loop (line 213)
    coordinates,                \* result of get_coords_caller awaiting persist
    calls,                      \* collaborator calls of the current run, in order
    \* ---- projector (deg2num / num2deg)
    arr,                        \* <<lon_deg, lat_deg>> given to deg2num
    zoom,                       \* zoom level of the projection
    tile,                       \* <<column, row>> returned by deg2num
    lonlat,                     \* <<lon, lat>> in microdegrees from num2deg
    center,                     \* the center flag num2deg was called with
    ppc,                        \* "input", "projected", "inverted"
    \* ---- rasterizer (get_coords_inside_polygon)
    polygon,                    \* ring of integer tile-grid vertices
    inside,                     \* sequence of points returned
    rpc                         \* "input", "done"

pipeVars == << entry, csv, inner_coords_calculated, stored_polygons, stored_coords,
               pc, run, prev_completed, start_calculated, start_polygons,
               start_coords, polygon_names, polygons, slippy_tile_coordinate_polygons,
               zipped_names_and_polygons, to_calculate_names_and_polygons,
               i, k, coordinates, calls >>
projVars == << arr, zoom, tile, lonlat, center, ppc >>
rastVars == << polygon, inside, rpc >>
vars == << pipeVars, projVars, rastVars >>

(***************************************************************************)
(* Bounds of the model                                                     *)
(***************************************************************************)
MaxRegions == 3     \* longest csv region list
MaxDirect == 2      \* longest list given to a direct call
MaxRuns == 2        \* runs of the pipeline against one store
MaxZoom == 3        \* zoom levels 0..MaxZoom are projected
GridMax == 3        \* rasterized polygons have vertices in 0..GridMax

(***************************************************************************)
(* CoordinateProjector                                                     *)
(***************************************************************************)
Micro == 10 ^ 6      \* fixed-point unit: angles in microdegrees, y in 1e-6

\* sample longitudes and latitudes (whole degrees), including lon = 180 and
\* latitudes on both sides of the Web-Mercator limit 85.0511
Lons == {-180, -135, -90, -1, 0, 45, 90, 179, 180}
Lats == {-89, -86, -85, -66, -41, 0, 41, 66, 85, 86, 89}

Pow2(e) == 2 ^ e

\* Python int(): truncation toward zero of the quotient a / b, b > 0
IntTrunc(a, b) == IF a >= 0 THEN a \div b ELSE -((-a) \div b)

\* ln(tan(lat) + 1/cos(lat)) / pi, times Micro, tabulated at the sample latitudes
MercatorMicro(lat_deg) ==
    CASE lat_deg = -89 -> -1509218
      [] lat_deg = -86 -> -1067826
      [] lat_deg = -85 -> -996724
      [] lat_deg = -66 -> -492918
      [] lat_deg = -41 -> -250148
      [] lat_deg = 0 -> 0
      [] lat_deg = 41 -> 250148
      [] lat_deg = 66 -> 492918
      [] lat_deg = 85 -> 996724
      [] lat_deg = 86 -> 1067826
      [] lat_deg = 89 -> 1509218

\* degrees(atan(sinh(pi * t))) in microdegrees, tabulated for t = key / 32,
\* key in -96..96 (entry key + 97)
GudermannMicroTable ==
    << -89990753, -89989799, -89988746, -89987585, -89986305, -89984892,
       -89983334, -89981614, -89979718, -89977625, -89975317, -89972771,
       -89969962, -89966864, -89963446, -89959675, -89955515, -89950926,
       -89945864, -89940280, -89934119, -89927323, -89919826, -89911556,
       -89902432, -89892368, -89881265, -89869017, -89855505, -89840600,
       -89824157, -89806017, -89786007, -89763933, -89739581, -89712717,
       -89683083, -89650391, -89614327, -89574543, -89530656, -89482241,
       -89428832, -89369914, -89304919, -89233219, -89154124, -89066871,
       -88970618, -88864439, -88747308, -88618098, -88475563, -88318330,
       -88144885, -87953559, -87742509, -87509706, -87252912, -86969661,
       -86657234, -86312636, -85932568, -85513398, -85051129, -84541361,
       -83979259, -83359511, -82676285, -81923186, -81093214, -80178713,
       -79171335, -78061989, -76840816, -75497157, -74019543, -72395706,
       -70612614, -68656555, -66513260, -64168107, -61606396, -58813742,
       -55776573, -52482780, -48922499, -45089036, -40979898, -36597889,
       -31952162, -27059126, -21943046, -16636192, -11178402, -5615986,
       0, 5615986, 11178402, 16636192, 21943046, 27059126,
       31952162, 36597889, 40979898, 45089036, 48922499, 52482780,
       55776573, 58813742, 61606396, 64168107, 66513260, 68656555,
       70612614, 72395706, 74019543, 75497157, 76840816, 78061989,
       79171335, 80178713, 81093214, 81923186, 82676285, 83359511,
       83979259, 84541361, 85051129, 85513398, 85932568, 86312636,
       86657234, 86969661, 87252912, 87509706, 87742509, 87953559,
       88144885, 88318330, 88475563, 88618098, 88747308, 88864439,
       88970618, 89066871, 89154124, 89233219, 89304919, 89369914,
       89428832, 89482241, 89530656, 89574543, 89614327, 89650391,
       89683083, 89712717, 89739581, 89763933, 89786007, 89806017,
       89824157, 89840600, 89855505, 89869017, 89881265, 89892368,
       89902432, 89911556, 89919826, 89927323, 89934119, 89940280,
       89945864, 89950926, 89955515, 89959675, 89963446, 89966864,
       89969962, 89972771, 89975317, 89977625, 89979718, 89981614,
       89983334, 89984892, 89986305, 89987585, 89988746, 89989799,
       89990753 >>

GudermannDen == 2 ^ 5
GudermannMicro(key) == GudermannMicroTable[key + 97]

\* un-truncated projected values, as exact fractions over XDen(z) and YDen
XNum(lon_deg, z) == (lon_deg + 180) * Pow2(z)
XDen == 360
YNum(lat_deg, z) == (Micro - MercatorMicro(lat_deg)) * Pow2(z)
YDen == 2 * Micro

\* slippy tile coordinates of a = <<lon_deg, lat_deg>> at zoom z
deg2numRounded(a, z) ==
    << IntTrunc(2 * XNum(a[1], z) + XDen, 2 * XDen),
       IntTrunc(2 * YNum(a[2], z) + YDen, 2 * YDen) >>

deg2num(a, z) ==
    << IntTrunc(XNum(a[1], z), XDen), IntTrunc(YNum(a[2], z), YDen) >>

num2degAlwaysCentered(t, z, c) ==
    LET n2 == 2 * Pow2(z)
    IN  << (2 * t[1] + 1) * ((360 * Micro) \div n2) - 180 * Micro,
           GudermannMicro((n2 - 2 * (2 * t[2] + 1)) * (GudermannDen \div n2)) >>

\* <<lon, lat>> in microdegrees of tile t = <<column, row>> at zoom z
num2deg(t, z, c) ==
    LET h == IF c THEN 1 ELSE 0          \* halves added to column and row
        n2 == 2 * Pow2(z)                \* 2n, so that halves stay integral
    IN  << (2 * t[1] + h) * ((360 * Micro) \div n2) - 180 * Micro,
           GudermannMicro((n2 - 2 * (2 * t[2] + h)) * (GudermannDen \div n2)) >>

InitProjector ==
    /\ arr \in Lons \X Lats
    /\ zoom \in 0..MaxZoom
    /\ tile = << 0, 0 >>
    /\ lonlat = << 0, 0 >>
    /\ center = FALSE
    /\ ppc = "input"

Deg2Num ==
    /\ ppc = "input"
    /\ tile' = deg2num(arr, zoom)
    /\ ppc' = "projected"
    /\ UNCHANGED << arr, zoom, lonlat, center >>

Num2Deg ==
    /\ ppc = "projected"
    /\ \E c \in BOOLEAN :
        /\ center' = c
        /\ lonlat' = num2deg(tile, zoom, c)
    /\ ppc' = "inverted"
    /\ UNCHANGED << arr, zoom, tile >>

(***************************************************************************)
(* GridRasterizer                                                          *)
(***************************************************************************)
GridPoints == (0..GridMax) \X (0..GridMax)

\* twice the signed area of the triangle a, b, p
Cross(a, b, p) == (b[1] - a[1]) * (p[2] - a[2]) - (b[2] - a[2]) * (p[1] - a[1])

Min2(a, b) == IF a <= b THEN a ELSE b
Max2(a, b) == IF a >= b THEN a ELSE b

NextVertex(ring, j) == ring[(j % Len(ring)) + 1]

OnSegment(a, b, p) ==
    /\ Cross(a, b, p) = 0
    /\ Min2(a[1], b[1]) <= p[1] /\ p[1] <= Max2(a[1], b[1])
    /\ Min2(a[2], b[2]) <= p[2] /\ p[2] <= Max2(a[2], b[2])

OnBoundary(ring, p) ==
    \E j \in 1..Len(ring) : OnSegment(ring[j], NextVertex(ring, j), p)

\* edge j crosses the horizontal ray from p towards +x
RayCrosses(ring, j, p) ==
    LET a == ring[j]
        b == NextVertex(ring, j)
    IN  /\ (a[2] > p[2]) # (b[2] > p[2])
        /\ IF b[2] > a[2] THEN Cross(a, b, p) > 0 ELSE Cross(a, b, p) < 0

\* shapely polygon.contains(Point(p)): p lies in the interior, not on the boundary
Contains(ring, p) ==
    /\ ~OnBoundary(ring, p)
    /\ Cardinality({j \in 1..Len(ring) : RayCrosses(ring, j, p)}) % 2 = 1

\* polygon.bounds: <<minx, miny, maxx, maxy>>
Bounds(ring) ==
    LET xs == {ring[j][1] : j \in 1..Len(ring)}
        ys == {ring[j][2] : j \in 1..Len(ring)}
    IN  << CHOOSE m \in xs : \A v \in xs : m <= v,
           CHOOSE m \in ys : \A v \in ys : m <= v,
           CHOOSE m \in xs : \A v \in xs : m >= v,
           CHOOSE m \in ys : \A v \in ys : m >= v >>

\* np.arange(start, stop): start, start + 1, ... below stop
Arange(start, stop) ==
    [j \in 1..(IF stop > start THEN stop - start ELSE 0) |-> start + j - 1]

\* np.meshgrid, flatten and vstack(...).T: the lattice in row-major order
MeshPoints(xs, ys) ==
    [j \in 1..(Len(xs) * Len(ys)) |->
        << xs[((j - 1) % Len(xs)) + 1], ys[((j - 1) \div Len(xs)) + 1] >>]

point_mapperNotNegated(x, poly) == Contains(poly, x)

\* TRUE masks the point out
point_mapper(x, poly) == ~Contains(poly, x)

\* np.ma.masked_array(points, mask).compressed().reshape((-1, 2))
RECURSIVE Compressed(_, _)
Compressed(points, mask) ==
    IF points = << >> THEN << >>
    ELSE IF mask[1] THEN Compressed(Tail(points), Tail(mask))
         ELSE << points[1] >> \o Compressed(Tail(points), Tail(mask))

get_coords_inside_polygon(poly) ==
    LET b == Bounds(poly)
        points == MeshPoints(Arange(b[1], b[3]), Arange(b[2], b[4]))
        mask == [j \in 1..Len(points) |-> point_mapper(points[j], poly)]
    IN  Compressed(points, mask)

\* polygons rasterized: every triangle of positive area on the grid, every
\* axis-aligned rectangle, and one concave quadrilateral
Triangles ==
    {<< a, b, c >> : a \in GridPoints, b \in GridPoints, c \in GridPoints}

Rectangles ==
    {<< << x1, y1 >>, << x2, y1 >>, << x2, y2 >>, << x1, y2 >> >> :
        x1 \in 0..GridMax, x2 \in 0..GridMax, y1 \in 0..GridMax, y2 \in 0..GridMax}

Dart == << << 0, 0 >>, << 3, 1 >>, << 0, 3 >>, << 1, 1 >> >>
Square02 == << << 0, 0 >>, << 2, 0 >>, << 2, 2 >>, << 0, 2 >> >>

\* twice the signed area of a ring (shoelace)
RECURSIVE Shoelace(_, _)
Shoelace(ring, j) ==
    IF j > Len(ring) THEN 0
    ELSE ring[j][1] * NextVertex(ring, j)[2] - NextVertex(ring, j)[1] * ring[j][2]
         + Shoelace(ring, j + 1)

TestPolygons ==
    {r \in Triangles \cup Rectangles \cup {Dart} : Shoelace(r, 1) # 0}

InitRasterizer ==
    /\ polygon \in TestPolygons
    /\ inside = << >>
    /\ rpc = "input"

Rasterize ==
    /\ rpc = "input"
    /\ inside' = get_coords_inside_polygon(polygon)
    /\ rpc' = "done"
    /\ UNCHANGED polygon

(***************************************************************************)
(* solardb store and csv enumeration (collaborators of the pipeline)       *)
(***************************************************************************)
Names == {"A", "B", "C"}        \* "City, State" name strings
DefaultZoom == 21

NoValue == [region |-> "none", stage |-> "none"]

SeqsUpTo(S, n) == UNION {[1..m -> S] : m \in 0..n}

get_inner_coords_calculated_polygon_names(calculated) == calculated

polygon_has_inner_grid(calculated, name) == name \in calculated

\* upsert of every (name, polygon) pair, later pairs overriding earlier ones
persist_polygons(stored, names_and_polygons) ==
    [n \in Names |->
        LET js == {j \in 1..Len(names_and_polygons) : names_and_polygons[j][1] = n}
        IN  IF js = {} THEN stored[n]
            ELSE names_and_polygons[CHOOSE j \in js : \A j2 \in js : j2 <= j][2]]

\* marks the name's interior grid as computed
persist_coords(calculated, name) == calculated \cup {name}

\* both enumerate the rows of the csv in file order
get_city_state_filepaths(csvpath) == csvpath
get_city_state_tuples(csvpath) == csvpath

(***************************************************************************)
(* RegionBatchProcessor                                                    *)
(***************************************************************************)
\* json.load of data/geoJSON/<city>.<state>.json
LoadGeoJSON(name) == [region |-> name, stage |-> "geojson"]

RECURSIVE get_polygonsReversed(_, _)
get_polygonsReversed(csvpath, exclude) ==
    IF csvpath = << >> THEN << >>
    ELSE LET rest == get_polygonsReversed(Tail(get_city_state_filepaths(csvpath)), exclude)
             name_string == Head(get_city_state_filepaths(csvpath))
         IN  IF name_string \notin exclude
             THEN rest \o << LoadGeoJSON(name_string) >>
             ELSE rest

RECURSIVE get_polygons(_, _)
get_polygons(csvpath, exclude) ==
    IF csvpath = << >> THEN << >>
    ELSE LET rest == get_polygons(Tail(get_city_state_filepaths(csvpath)), exclude)
             name_string == Head(get_city_state_filepaths(csvpath))
         IN  IF name_string \notin exclude
             THEN << LoadGeoJSON(name_string) >> \o rest
             ELSE rest

\* shape(polygon).convex_hull.simplify(...).buffer(...)
simplify_polygon(p) == [p EXCEPT !.stage = "simplified"]

combine_all_polygons(csvpath, exclude) ==
    LET loaded == get_polygons(csvpath, exclude)
    IN  [j \in 1..Len(loaded) |-> simplify_polygon(loaded[j])]

\* deg2num applied to every coordinate of every polygon
convert_to_slippy_tile_coords(ps, z) ==
    [j \in 1..Len(ps) |-> [ps[j] EXCEPT !.stage = "slippy"]]

\* get_coords_inside_polygon of the projected polygon
get_coords_caller(name, p) == [region |-> p.region, stage |-> "inner_coords"]

LengthsAlwaysMatch(names, ps) == TRUE

\* the condition asserted on line 206
LengthsMatch(names, ps) == Len(names) = Len(ps)

\* list(zip(...)): pairs up to the shorter list
Zip(names, ps) ==
    [j \in 1..Min2(Len(names), Len(ps)) |-> << names[j], ps[j] >>]

PolygonsToPersistNotCalculated(zipped, calculated) ==
    SelectSeq(zipped, LAMBDA e : ~polygon_has_inner_grid(calculated, e[1]))

\* the argument handed to solardb.persist_polygons on line 208
PolygonsToPersist(zipped, calculated) == zipped

ShouldCalculateNotNegated(has_grid) == has_grid

\* the condition of line 211, given the store's answer
ShouldCalculate(has_grid) == ~has_grid

AppendTwice(list, e) == Append(Append(list, e), e)

\* line 212
AppendToCalculate(list, e) == Append(list, e)

Call(op, idx, name, val) == [op |-> op, idx |-> idx, name |-> name, val |-> val]

InitPipeline ==
    /\ entry \in {"csvpath", "direct"}
    /\ csv \in SeqsUpTo(Names, MaxRegions)
    /\ entry = "direct" => csv = << >>
    /\ inner_coords_calculated \in SUBSET Names
    \* a region whose grid is computed has its polygon and coordinates stored
    /\ stored_polygons = [n \in Names |->
           IF n \in inner_coords_calculated
           THEN [region |-> n, stage |-> "slippy"] ELSE NoValue]
    /\ stored_coords = [n \in Names |->
           IF n \in inner_coords_calculated
           THEN [region |-> n, stage |-> "inner_coords"] ELSE NoValue]
    /\ pc = "idle"
    /\ run = 0
    /\ prev_completed = FALSE
    /\ start_calculated = inner_coords_calculated
    /\ start_polygons = stored_polygons
    /\ start_coords = stored_coords
    /\ polygon_names = << >>
    /\ polygons = << >>
    /\ slippy_tile_coordinate_polygons = << >>
    /\ zipped_names_and_polygons = << >>
    /\ to_calculate_names_and_polygons = << >>
    /\ i = 1
    /\ k = 1
    /\ coordinates = NoValue
    /\ calls = << >>

\* state common to the start of every call of calculate_inner_coordinates
EnterCall ==
    /\ run' = run + 1
    /\ prev_completed' = (pc = "done")
    /\ start_calculated' = inner_coords_calculated
    /\ start_polygons' = stored_polygons
    /\ start_coords' = stored_coords
    /\ slippy_tile_coordinate_polygons' = << >>
    /\ zipped_names_and_polygons' = << >>
    /\ to_calculate_names_and_polygons' = << >>
    /\ i' = 1
    /\ k' = 1
    /\ coordinates' = NoValue
    /\ calls' = << >>
    /\ pc' = "convert"
    /\ UNCHANGED << entry, csv, inner_coords_calculated, stored_polygons, stored_coords >>

\* calculate_inner_coordinates_from_csvpath, lines 197-200, up to the call
CalculateFromCsvpath ==
    /\ entry = "csvpath"
    /\ pc \in {"idle", "done", "aborted"}
    /\ run < MaxRuns
    /\ polygons' = combine_all_polygons(csv,
           get_inner_coords_calculated_polygon_names(inner_coords_calculated))
    /\ polygon_names' = get_city_state_tuples(csv)
    /\ EnterCall

\* calculate_inner_coordinates called by a client with lists of its own
CalculateDirect ==
    /\ entry = "direct"
    /\ pc = "idle"
    /\ run < MaxRuns
    /\ polygon_names' \in SeqsUpTo(Names, MaxDirect)
    /\ polygons' \in SeqsUpTo({simplify_polygon(LoadGeoJSON(n)) : n \in Names}, MaxDirect)
    /\ EnterCall

callVars == << entry, csv, run, prev_completed, start_calculated, start_polygons,
              start_coords,
              polygon_names, polygons >>

\* line 205
Convert ==
    /\ pc = "convert"
    /\ slippy_tile_coordinate_polygons' = convert_to_slippy_tile_coords(polygons, DefaultZoom)
    /\ pc' = "assert"
    /\ UNCHANGED << callVars, inner_coords_calculated, stored_polygons, stored_coords,
                    zipped_names_and_polygons, to_calculate_names_and_polygons,
                    i, k, coordinates, calls >>

\* line 206: AssertionError ends the call
AssertLengths ==
    /\ pc = "assert"
    /\ pc' = IF LengthsMatch(polygon_names, slippy_tile_coordinate_polygons)
             THEN "zip" ELSE "aborted"
    /\ UNCHANGED << callVars, inner_coords_calculated, stored_polygons, stored_coords,
                    slippy_tile_coordinate_polygons, zipped_names_and_polygons,
                    to_calculate_names_and_polygons, i, k, coordinates, calls >>

\* lines 207-209
ZipAndPersistPolygons ==
    /\ pc = "zip"
    /\ zipped_names_and_polygons' = Zip(polygon_names, slippy_tile_coordinate_polygons)
    /\ LET arg == PolygonsToPersist(zipped_names_and_polygons', inner_coords_calculated)
       IN  /\ stored_polygons' = persist_polygons(stored_polygons, arg)
           /\ calls' = Append(calls, Call("persist_polygons", 0, "", arg))
    /\ to_calculate_names_and_polygons' = << >>
    /\ i' = 1
    /\ pc' = "filter"
    /\ UNCHANGED << callVars, inner_coords_calculated, stored_coords,
                    slippy_tile_coordinate_polygons, k, coordinates >>

\* lines 210-212, one iteration; an entry of to_calculate is
\* <<name, polygon, position in the zipped list>>
Filter ==
    /\ pc = "filter"
    /\ i <= Len(zipped_names_and_polygons)
    /\ LET name == zipped_names_and_polygons[i][1]
           poly == zipped_names_and_polygons[i][2]
           has_grid == polygon_has_inner_grid(inner_coords_calculated, name)
       IN  /\ calls' = Append(calls, Call("polygon_has_inner_grid", i, name, has_grid))
           /\ to_calculate_names_and_polygons' =
                  IF ShouldCalculate(has_grid)
                  THEN AppendToCalculate(to_calculate_names_and_polygons, << name, poly, i >>)
                  ELSE to_calculate_names_and_polygons
    /\ i' = i + 1
    /\ UNCHANGED << callVars, inner_coords_calculated, stored_polygons, stored_coords,
                    pc, slippy_tile_coordinate_polygons, zipped_names_and_polygons,
                    k, coordinates >>

\* the loop of line 210 is exhausted
FilterEnd ==
    /\ pc = "filter"
    /\ i > Len(zipped_names_and_polygons)
    /\ k' = 1
    /\ pc' = "rasterize"
    /\ UNCHANGED << callVars, inner_coords_calculated, stored_polygons, stored_coords,
                    slippy_tile_coordinate_polygons, zipped_names_and_polygons,
                    to_calculate_names_and_polygons, i, coordinates, calls >>

\* line 214
GetCoords ==
    /\ pc = "rasterize"
    /\ k <= Len(to_calculate_names_and_polygons)
    /\ LET e == to_calculate_names_and_polygons[k]
       IN  /\ coordinates' = get_coords_caller(e[1], e[2])
           /\ calls' = Append(calls, Call("get_coords_caller", e[3], e[1], e[2]))
    /\ pc' = "persist"
    /\ UNCHANGED << callVars, inner_coords_calculated, stored_polygons, stored_coords,
                    slippy_tile_coordinate_polygons, zipped_names_and_polygons,
                    to_calculate_names_and_polygons, i, k >>

PersistCoordsOmitted ==
    /\ pc = "persist"
    /\ k' = k + 1
    /\ pc' = "rasterize"
    /\ UNCHANGED << callVars, inner_coords_calculated, stored_polygons, stored_coords,
                    slippy_tile_coordinate_polygons, zipped_names_and_polygons,
                    to_calculate_names_and_polygons, i, coordinates, calls >>

\* line 215
PersistCoords ==
    /\ pc = "persist"
    /\ LET e == to_calculate_names_and_polygons[k]
       IN  /\ inner_coords_calculated' = persist_coords(inner_coords_calculated, e[1])
           /\ stored_coords' = [stored_coords EXCEPT ![e[1]] = coordinates]
           /\ calls' = Append(calls, Call("persist_coords", e[3], e[1], coordinates))
    /\ k' = k + 1
    /\ pc' = "rasterize"
    /\ UNCHANGED << callVars, stored_polygons, slippy_tile_coordinate_polygons,
                    zipped_names_and_polygons, to_calculate_names_and_polygons,
                    i, coordinates >>

\* the loop of line 213 is exhausted: the call returns (line 201 for the csv entry)
Return ==
    /\ pc = "rasterize"
    /\ k > Len(to_calculate_names_and_polygons)
    /\ pc' = "done"
    /\ UNCHANGED << callVars, inner_coords_calculated, stored_polygons, stored_coords,
                    slippy_tile_coordinate_polygons, zipped_names_and_polygons,
                    to_calculate_names_and_polygons, i, k, coordinates, calls >>

(***************************************************************************)
(* Specifications                                                          *)
(***************************************************************************)
\* the pipeline against the store
Init ==
    /\ InitPipeline
    /\ arr = << 0, 0 >> /\ zoom = 0 /\ tile = << 0, 0 >> /\ lonlat = << 0, 0 >>
    /\ center = FALSE /\ ppc = "input"
    /\ polygon = Square02 /\ inside = << >> /\ rpc = "input"

Next ==
    \/ CalculateFromCsvpath /\ UNCHANGED << projVars, rastVars >>
    \/ CalculateDirect /\ UNCHANGED << projVars, rastVars >>
    \/ Convert /\ UNCHANGED << projVars, rastVars >>
    \/ AssertLengths /\ UNCHANGED << projVars, rastVars >>
    \/ ZipAndPersistPolygons /\ UNCHANGED << projVars, rastVars >>
    \/ Filter /\ UNCHANGED << projVars, rastVars >>
    \/ FilterEnd /\ UNCHANGED << projVars, rastVars >>
    \/ GetCoords /\ UNCHANGED << projVars, rastVars >>
    \/ PersistCoords /\ UNCHANGED << projVars, rastVars >>
    \/ Return /\ UNCHANGED << projVars, rastVars >>

Spec == Init /\ [][Next]_vars

IdlePipeline ==
    /\ entry = "direct" /\ csv = << >> /\ inner_coords_calculated = {}
    /\ stored_polygons = [n \in Names |-> NoValue]
    /\ stored_coords = [n \in Names |-> NoValue]
    /\ pc = "idle" /\ run = 0 /\ prev_completed = FALSE
    /\ start_calculated = {} /\ start_polygons = stored_polygons
    /\ start_coords = stored_coords
    /\ polygon_names = << >> /\ polygons = << >>
    /\ slippy_tile_coordinate_polygons = << >>
    /\ zipped_names_and_polygons = << >>
    /\ to_calculate_names_and_polygons = << >>
    /\ i = 1 /\ k = 1 /\ coordinates = NoValue /\ calls = << >>

\* the projector applied to sample coordinates
InitProj ==
    /\ InitProjector
    /\ IdlePipeline
    /\ polygon = Square02 /\ inside = << >> /\ rpc = "input"

NextProj ==
    \/ Deg2Num /\ UNCHANGED << pipeVars, rastVars >>
    \/ Num2Deg /\ UNCHANGED << pipeVars, rastVars >>

SpecProjector == InitProj /\ [][NextProj]_vars

\* the rasterizer applied to sample polygons
InitRast ==
    /\ InitRasterizer
    /\ IdlePipeline
    /\ arr = << 0, 0 >> /\ zoom = 0 /\ tile = << 0, 0 >> /\ lonlat = << 0, 0 >>
    /\ center = FALSE /\ ppc = "input"

NextRast == Rasterize /\ UNCHANGED << pipeVars, projVars >>

SpecRasterizer == InitRast /\ [][NextRast]_vars

(***************************************************************************)
(* Properties of the pipeline                                              *)
(***************************************************************************)
CallIdx(op) == {j \in 1..Len(calls) : calls[j].op = op}
CallsOf(op, idx) == {j \in CallIdx(op) : calls[j].idx = idx}
CallsNamed(op, name) == {j \in CallIdx(op) : calls[j].name = name}

CsvNames == {csv[j] : j \in 1..Len(csv)}

\* the run was started on a store holding the grid of some, not all, csv regions
PartialAtStart ==
    /\ entry = "csvpath"
    /\ run >= 1
    /\ CsvNames \cap start_calculated # {}
    /\ CsvNames \ start_calculated # {}

\* the count check of line 206 has been passed in the current call
PassedCheck == pc \in {"zip", "filter", "rasterize", "persist", "done"}
PersistedPolygons == pc \in {"filter", "rasterize", "persist", "done"}
Filtered == pc \in {"rasterize", "persist", "done"}

\* C1: a run of calculate_inner_coordinates_from_csvpath on a store in which a
\* non-empty proper subset of the csv regions has an interior grid does not
\* abort, and when it has finished every csv region has an interior grid.
C1_PartialStoreResumes ==
    PartialAtStart =>
        /\ pc # "aborted"
        /\ pc = "done" => CsvNames \subseteq inner_coords_calculated

\* C2: a second run on the same csv and store, after a first run that
\* completed, finds every csv region computed and makes no call to the
\* rasterizer (get_coords_caller) and no call to persist_coords.
C2_SecondRunNoRasterization ==
    (entry = "csvpath" /\ run >= 2 /\ prev_completed) =>
        /\ CsvNames \subseteq start_calculated
        /\ CallIdx("get_coords_caller") = {}
        /\ CallIdx("persist_coords") = {}

C2_Witness ==
    /\ entry = "csvpath" /\ run = 2 /\ prev_completed
    /\ Len(csv) >= 2
    /\ pc \in {"done", "aborted"}

\* C3: a call of calculate_inner_coordinates with name and polygon lists of
\* different lengths ends in the assertion error, having made no call to the
\* store (no persist_polygons, polygon_has_inner_grid or persist_coords) and
\* leaving the store as it was.
C3_MismatchAbortsUntouched ==
    (pc # "idle" /\ Len(polygon_names) # Len(polygons)) =>
        /\ pc \in {"convert", "assert", "aborted"}
        /\ calls = << >>
        /\ inner_coords_calculated = start_calculated
        /\ stored_polygons = start_polygons
        /\ stored_coords = start_coords

C3_Witness ==
    /\ entry = "direct" /\ pc = "aborted"
    /\ Len(polygon_names) = 2 /\ Len(polygons) = 1

\* C7 as stated: within one call, get_coords_caller and persist_coords are
\* each invoked at most once for every region name, whatever the name list.
C7_OncePerName ==
    \A n \in Names :
        /\ Cardinality(CallsNamed("get_coords_caller", n)) <= 1
        /\ Cardinality(CallsNamed("persist_coords", n)) <= 1

NamesDistinct ==
    \A a, b \in 1..Len(polygon_names) : polygon_names[a] = polygon_names[b] => a = b

\* C7 amended: within one call, get_coords_caller and persist_coords are each
\* invoked at most once for every entry of the name list, hence at most once
\* for every name when the list holds no name twice.
C7_OncePerEntry ==
    /\ \A idx \in 0..Len(polygon_names) + 1 :
        /\ Cardinality(CallsOf("get_coords_caller", idx)) <= 1
        /\ Cardinality(CallsOf("persist_coords", idx)) <= 1
    /\ \A j \in CallIdx("get_coords_caller") \cup CallIdx("persist_coords") :
        calls[j].idx \in 1..Len(polygon_names)
    /\ NamesDistinct => C7_OncePerName

C7_Witness ==
    /\ pc = "done"
    /\ ~NamesDistinct
    /\ Cardinality(CallIdx("persist_coords")) >= 2

ExpectedPolygon(name) == [region |-> name, stage |-> "slippy"]

\* C8: in a run from the csv that passes the count check, the polygon
\* persisted under the i-th name, and the polygon rasterized for it, is the
\* simplified and projected geometry loaded for the i-th csv region.
C8_NamesAlignedWithPolygons ==
    (entry = "csvpath" /\ PassedCheck) =>
        /\ \A j \in CallIdx("persist_polygons") :
            /\ Len(calls[j].val) = Len(csv)
            /\ \A m \in 1..Len(csv) :
                calls[j].val[m] = << csv[m], ExpectedPolygon(csv[m]) >>
        /\ \A j \in CallIdx("get_coords_caller") :
            /\ calls[j].name = csv[calls[j].idx]
            /\ calls[j].val = ExpectedPolygon(calls[j].name)
        /\ PersistedPolygons =>
            \A n \in CsvNames : stored_polygons[n] = ExpectedPolygon(n)

C8_Witness ==
    /\ entry = "csvpath" /\ pc = "done"
    /\ Len(csv) = 3 /\ csv[1] # csv[2] /\ csv[2] # csv[3] /\ csv[1] # csv[3]
    /\ Cardinality(CallIdx("get_coords_caller")) = 3

\* the answer of the store to the query made for entry idx
Answer(idx) == calls[CHOOSE j \in CallsOf("polygon_has_inner_grid", idx) : TRUE].val

\* C9: in a call that passes the count check every entry of the name list is
\* queried with polygon_has_inner_grid exactly once, in input order;
\* persist_coords is called for an entry iff its query returned false; the
\* rasterized entries are processed in input order, each entry's
\* persist_coords directly following its rasterization.
C9_FilterExact ==
    PersistedPolygons =>
        /\ \A idx \in 1..Len(polygon_names) :
            Cardinality(CallsOf("polygon_has_inner_grid", idx))
                = IF idx < i THEN 1 ELSE 0
        /\ \A j \in CallIdx("polygon_has_inner_grid") :
            /\ calls[j].idx = j - 1
            /\ calls[j].name = polygon_names[j - 1]
        /\ Filtered => i = Len(polygon_names) + 1
        /\ \A j \in CallIdx("get_coords_caller") \cup CallIdx("persist_coords") :
            /\ CallsOf("polygon_has_inner_grid", calls[j].idx) # {}
            /\ Answer(calls[j].idx) = FALSE
            /\ calls[j].name = polygon_names[calls[j].idx]
        /\ \A j \in CallIdx("get_coords_caller") :
            /\ j < Len(calls) =>
                /\ calls[j + 1].op = "persist_coords"
                /\ calls[j + 1].idx = calls[j].idx
            /\ \A j2 \in CallIdx("get_coords_caller") :
                j < j2 => calls[j].idx < calls[j2].idx
        /\ \A j \in CallIdx("persist_coords") :
            /\ calls[j - 1].op = "get_coords_caller"
            /\ calls[j - 1].idx = calls[j].idx
        /\ pc = "done" =>
            \A idx \in 1..Len(polygon_names) :
                Cardinality(CallsOf("persist_coords", idx))
                    = IF Answer(idx) THEN 0 ELSE 1

C9_Witness ==
    /\ pc = "done"
    /\ \E a, b \in 1..Len(polygon_names) :
        /\ a < b
        /\ Answer(a) = TRUE /\ Answer(b) = FALSE
        /\ CallsOf("persist_coords", b) # {}

\* C10: in a call that passes the count check persist_polygons is called
\* exactly once, with the full list of (name, projected polygon) pairs, before
\* the first polygon_has_inner_grid query; every query precedes the first
\* rasterization and the first persist_coords, so the regions rasterized are
\* those without a grid when the call started.
C10_PhaseOrder ==
    /\ ~PersistedPolygons => calls = << >>
    /\ PersistedPolygons =>
        /\ CallIdx("persist_polygons") = {1}
        /\ Len(calls[1].val) = Len(polygon_names)
        /\ \A m \in 1..Len(polygon_names) :
            calls[1].val[m] = << polygon_names[m], slippy_tile_coordinate_polygons[m] >>
        /\ \A a \in CallIdx("polygon_has_inner_grid") :
            \A b \in CallIdx("get_coords_caller") \cup CallIdx("persist_coords") : a < b
        /\ pc = "done" =>
            {calls[j].idx : j \in CallIdx("get_coords_caller")}
                = {m \in 1..Len(polygon_names) : polygon_names[m] \notin start_calculated}

C10_Witness ==
    /\ pc = "done"
    /\ \E a, b \in 1..Len(polygon_names) :
        /\ polygon_names[a] \in start_calculated
        /\ polygon_names[b] \notin start_calculated
        /\ CallsOf("persist_coords", b) # {}
    /\ Len(calls[1].val) = Len(polygon_names)

(***************************************************************************)
(* Properties of the projector                                             *)
(***************************************************************************)
InRange(v, z) == 0 <= v /\ v < Pow2(z)

\* C4 as stated: for every latitude in (-90, 90), longitude in [-180, 180]
\* and zoom z, deg2num returns 0 <= column < 2^z and 0 <= row < 2^z.
C4_TileInRange ==
    ppc # "input" => InRange(tile[1], zoom) /\ InRange(tile[2], zoom)

\* C4 amended: column and row lie in [0, 2^z) for longitude in [-180, 180)
\* and latitude inside the Web-Mercator limits; at longitude 180 the column
\* is 2^z, above the northern limit the row is <= 0 and below the southern
\* limit it is >= 2^z.
C4_TileInRangeInsideLimits ==
    ppc # "input" =>
        /\ (arr[1] < 180 /\ -85 <= arr[2] /\ arr[2] <= 85) =>
            InRange(tile[1], zoom) /\ InRange(tile[2], zoom)
        /\ arr[1] < 180 => InRange(tile[1], zoom)
        /\ arr[1] = 180 => tile[1] = Pow2(zoom)
        /\ arr[2] > 85 => tile[2] <= 0
        /\ arr[2] < -85 => tile[2] >= Pow2(zoom)

C4_Witness ==
    /\ ppc = "projected"
    /\ arr = << 179, -85 >> /\ zoom = 3
    /\ tile = << 7, 7 >>

\* the un-truncated projection of arr lies in the cell [v, v + 1) of the tile
InCellX == /\ tile[1] * XDen <= XNum(arr[1], zoom)
           /\ XNum(arr[1], zoom) < (tile[1] + 1) * XDen
InCellY == /\ tile[2] * YDen <= YNum(arr[2], zoom)
           /\ YNum(arr[2], zoom) < (tile[2] + 1) * YDen
\* ... or, for a negative projection, in the cell (v - 1, v]
InCellAboveY == /\ (tile[2] - 1) * YDen < YNum(arr[2], zoom)
                /\ YNum(arr[2], zoom) <= tile[2] * YDen

TileWidthMicro == (360 * Micro) \div Pow2(zoom)
CornerRoundTrip == ppc = "inverted" /\ ~center

\* the corner returned by num2deg is at most one tile width west of arr
LonWithinTile ==
    /\ lonlat[1] <= arr[1] * Micro
    /\ arr[1] * Micro < lonlat[1] + TileWidthMicro
\* the corner is at most one tile height north of arr
LatWithinTile ==
    /\ arr[2] * Micro <= lonlat[2]
    /\ num2deg(<< tile[1], tile[2] + 1 >>, zoom, FALSE)[2] < arr[2] * Micro
\* the corner is at most one tile height south of arr
LatWithinTileAbove ==
    /\ lonlat[2] <= arr[2] * Micro
    /\ arr[2] * Micro < num2deg(<< tile[1], tile[2] - 1 >>, zoom, FALSE)[2]

\* C5 as stated: for every valid coordinate c and zoom z the corner
\* num2deg(deg2num(c, z), z, center=False) is within one tile of c, with
\* column <= x(c) < column + 1 and row <= y(c) < row + 1.
C5_CornerCellContains ==
    /\ ppc # "input" => InCellX /\ InCellY
    /\ CornerRoundTrip => LonWithinTile /\ LatWithinTile

\* C5 amended: column <= x(c) < column + 1 always, and row <= y(c) < row + 1
\* when y(c) >= 0 (latitude not above the Web-Mercator limit); above the limit
\* the truncation is toward zero and row - 1 < y(c) <= row. Either way the
\* corner is within one tile width and one tile height of c.
C5_CornerWithinOneTile ==
    /\ ppc # "input" =>
        /\ InCellX
        /\ YNum(arr[2], zoom) >= 0 => InCellY
        /\ YNum(arr[2], zoom) < 0 => InCellAboveY
    /\ CornerRoundTrip =>
        /\ LonWithinTile
        /\ YNum(arr[2], zoom) >= 0 => LatWithinTile
        /\ YNum(arr[2], zoom) < 0 => LatWithinTileAbove

C5_Witness ==
    /\ CornerRoundTrip
    /\ arr = << 45, 41 >> /\ zoom = 3
    /\ tile = << 5, 2 >>
    /\ lonlat = << 45 * Micro, 66513260 >>

(***************************************************************************)
(* Properties of the rasterizer                                            *)
(***************************************************************************)
\* integer lattice of the bounding box, floor(min)..floor(max) on each axis
BoxLattice(ring) ==
    LET b == Bounds(ring)
    IN  (b[1]..b[3]) \X (b[2]..b[4])

\* p is strictly on one side of every edge of a convex ring
StrictlyInsideConvex(ring, p) ==
    \/ \A j \in 1..Len(ring) : Cross(ring[j], NextVertex(ring, j), p) > 0
    \/ \A j \in 1..Len(ring) : Cross(ring[j], NextVertex(ring, j), p) < 0

\* lattice points strictly inside: triangles and rectangles are convex, the
\* interior points of the concave Dart are listed
StrictInterior(ring) ==
    IF ring = Dart THEN {<< 2, 1 >>, << 1, 2 >>}
    ELSE {p \in BoxLattice(ring) : StrictlyInsideConvex(ring, p)}

InsideSet == {inside[j] : j \in 1..Len(inside)}

\* C6: get_coords_inside_polygon returns exactly the lattice points of the
\* bounding box that the polygon strictly contains, each once; for the square
\* with corners (0,0) and (2,2) the result is exactly {(1,1)}.
C6_RasterizationExact ==
    rpc = "done" =>
        /\ InsideSet = StrictInterior(polygon)
        /\ Cardinality(InsideSet) = Len(inside)
        /\ polygon = Square02 => inside = << << 1, 1 >> >>

C6_Witness ==
    /\ rpc = "done"
    /\ polygon = Square02
    /\ inside = << << 1, 1 >> >>

====
